---- MODULE Spec2Model ----
(***************************************************************************)
(* A model of analysis.py: the module-level script that loads the Spotify  *)
(* export (sharded music history, podcast history, library, wrapped),      *)
(* normalises it with history_to_df and computes the summaries drawn by    *)
(* plot_overall_stats and plot_listening_patterns.                         *)
(*                                                                         *)
(* One behaviour is one run of the script over one content of the          *)
(* sampledata directory.  The directory is the input: Init draws it from   *)
(* bounded families, the actions never change it.                          *)
(***************************************************************************)
EXTENDS Integers, Sequences, FiniteSets, TLC

\* ------------------------------------------------------------- bounds

\* Shard files that may exist are StreamingHistory_music_0 .. MaxShards-1.
MaxShards == 3
\* Distinct artists (and tracks) of a generated listening history.
MaxKeys == 12
\* Events of a generated history that varies msPlayed only.
MaxPlays == 2
\* Distinct listening times of a generated history.
MaxModulus == 3

\* ---------------------------------------------------- program constants

\* head(10) of the two top-N summaries.
TopN == 10
\* df['msPlayed'] / 60000
MsPerMinute == 60000

\* ------------------------------------------------------------ helpers

Min(a, b) == IF a < b THEN a ELSE b

RECURSIVE SeqsUpTo(_, _)
\* All sequences over S of length at most n.
SeqsUpTo(S, n) ==
    IF n = 0 THEN {<<>>}
    ELSE LET shorter == SeqsUpTo(S, n - 1)
         IN  shorter \cup {Append(s, x) : s \in shorter, x \in S}

\* ----------------------------------------------------- the input files

\* endTime strings "YYYY-MM-DD HH:MM", kept as their five numeric fields.
NewYear10h == <<2024, 1, 1, 10, 0>>
NewYear11h == <<2024, 1, 1, 11, 30>>
Sunday23h == <<2024, 1, 7, 23, 59>>
LeapDay0h == <<2024, 2, 29, 0, 0>>

\* A record of StreamingHistory_music_<N>.json.  Names are numbered in
\* lexicographic order: name 1 sorts before name 2.
MusicRecord(t, artist, track, ms) ==
    [endTime |-> t, artistName |-> artist, trackName |-> track, msPlayed |-> ms]

\* A record of StreamingHistory_podcast_0.json (no artistName).
PodcastRecord(t, track, ms) ==
    [endTime |-> t, trackName |-> track, msPlayed |-> ms]

\* Shard contents of the file-status family: the two events of the
\* end-to-end example, a skip, a repeated record, and an empty array.
ShardBodies ==
    { <<>>,
      <<MusicRecord(NewYear10h, 1, 1, 180000)>>,
      <<MusicRecord(NewYear11h, 2, 2, 30000)>>,
      <<MusicRecord(Sunday23h, 2, 3, 6000), MusicRecord(NewYear10h, 1, 1, 180000)>>,
      <<MusicRecord(LeapDay0h, 3, 1, 30000), MusicRecord(LeapDay0h, 3, 1, 30000)>> }

PodcastBodies ==
    { <<>>, <<PodcastRecord(NewYear11h, 7, 1200000)>> }

Absent == [status |-> "absent", body |-> <<>>]
Bad == [status |-> "bad", body |-> <<>>]
Ok(b) == [status |-> "ok", body |-> b]

ShardFiles == {Absent, Bad} \cup {Ok(b) : b \in ShardBodies}
PodcastFiles == {Absent, Bad} \cup {Ok(b) : b \in PodcastBodies}
\* YourLibrary.json and Wrapped2024.json: loaded, never read.
OpaqueFiles == {Absent, Ok(<<>>)}

\* msPlayed values around the 0.1 minute threshold.
MsValues == {0, 5999, 6000, 6001, 60000}

\* Histories that vary msPlayed only.
PlayBodies ==
    { [i \in 1..Len(s) |-> MusicRecord(NewYear10h, i, i, s[i])] :
        s \in SeqsUpTo(MsValues, MaxPlays) \ {<<>>} }

\* A history of n distinct artists, one event each, first seen in ascending
\* or descending name order; artist k plays (1 + k % modulus) minutes on
\* track k at hour k % 24; `extra`, when not 0, is an artist heard once more.
WideBody(n, desc, modulus, extra) ==
    LET key(i) == IF desc THEN n + 1 - i ELSE i
        base == [i \in 1..n |->
                   MusicRecord(<<2024, 1, 1 + (key(i) % 7), key(i) % 24, 0>>,
                               key(i), key(i),
                               MsPerMinute * (1 + (key(i) % modulus)))]
    IN  IF extra = 0 THEN base
        ELSE Append(base, MusicRecord(NewYear10h, extra, extra, MsPerMinute))

WideBodies ==
    UNION { { WideBody(n, desc, modulus, extra) :
                desc \in BOOLEAN, modulus \in 1..MaxModulus, extra \in {0, 1, n} } :
            n \in 1..MaxKeys }

\* -------------------------------------------------------------- state

VARIABLES
    sampledata,        \* the input directory: music shards, podcast, library, wrapped
    pc,                \* the statement the script is at
    file_index,        \* load_all_music_history: file_index
    all_music_data,    \* load_all_music_history: all_music_data
    opened,            \* the shard indices load_json was called on, in call order
    stdout,            \* the messages printed so far
    globals,           \* the module-level names that are bound
    music_history,     \* module-level music_history
    podcast_history,   \* module-level podcast_history
    music_df,          \* module-level music_df
    podcast_df,        \* module-level podcast_df
    overall_stats,     \* the summaries plot_overall_stats computed
    listening_patterns,\* the summaries plot_listening_patterns computed
    artifacts,         \* the image files written
    exc                \* the uncaught exception that ended the run, or "none"

vars == <<sampledata, pc, file_index, all_music_data, opened, stdout, globals,
          music_history, podcast_history, music_df, podcast_df, overall_stats,
          listening_patterns, artifacts, exc>>

\* The shard file of index i; no file exists beyond MaxShards - 1.
Shard(i) == IF i < MaxShards THEN sampledata.music[i] ELSE Absent

\* A line of output: the message, the file it names, and the count it gives.
Printed(msg, file, index, n) == [msg |-> msg, file |-> file, index |-> index, n |-> n]

\* A number of a Series or a column, kept as the exact quotient num/den.
Rat(n, d) == [num |-> n, den |-> d]

NoOverallStats ==
    [total_music_minutes |-> Rat(0, 1), total_podcast_minutes |-> Rat(0, 1),
     top_artists |-> <<>>, daily_listening |-> <<>>, track_counts |-> <<>>]

NoListeningPatterns ==
    [hourly_listening |-> <<>>, weekly_listening |-> <<>>,
     monthly_listening |-> <<>>, valid_plays |-> <<>>]

Start ==
    /\ pc = "load_music"
    /\ file_index = 0
    /\ all_music_data = <<>>
    /\ opened = <<>>
    /\ stdout = <<>>
    /\ globals = {}
    /\ music_history = <<>>
    /\ podcast_history = <<>>
    /\ music_df = <<>>
    /\ podcast_df = <<>>
    /\ overall_stats = NoOverallStats
    /\ listening_patterns = NoListeningPatterns
    /\ artifacts = {}
    /\ exc = "none"

\* Every status of every file, shard contents from ShardBodies.
InitFiles ==
    /\ sampledata \in [music : [0..MaxShards-1 -> ShardFiles],
                       podcast : PodcastFiles,
                       library : OpaqueFiles,
                       wrapped : OpaqueFiles]
    /\ Start

OneShard(b) ==
    [music |-> [i \in 0..MaxShards-1 |-> IF i = 0 THEN Ok(b) ELSE Absent],
     podcast |-> Ok(<<PodcastRecord(NewYear11h, 7, 1200000)>>),
     library |-> Ok(<<>>),
     wrapped |-> Ok(<<>>)]

\* All files present, one music shard holding a generated history.
InitWide ==
    /\ sampledata \in {OneShard(b) : b \in WideBodies \cup PlayBodies}
    /\ Start

Init == InitFiles \/ InitWide

\* ------------------------------------------- load_all_music_history

\* A loader that puts each shard before what it has: extend with the operands swapped.
Extend_prepend(acc, data) == data \o acc

\* all_music_data.extend(music_data)
Extend(acc, data) == acc \o data

\* file_index += 1
NextIndex(i) == i + 1

\* One iteration of the loop whose load_json succeeds.
LoadShardOk ==
    /\ pc = "load_music"
    /\ Shard(file_index).status = "ok"
    /\ opened' = Append(opened, file_index)
    /\ all_music_data' = Extend(all_music_data, Shard(file_index).body)
    /\ stdout' = Append(stdout, Printed("Loaded", "music", file_index,
                                         Len(Shard(file_index).body)))
    /\ file_index' = NextIndex(file_index)
    /\ UNCHANGED <<sampledata, pc, globals, music_history, podcast_history,
                   music_df, podcast_df, overall_stats, listening_patterns,
                   artifacts, exc>>

\* A loader that skips a missing shard: `continue` with the next index where
\* the code has `break`, while shard files may remain.
LoadShardNotFound_continue ==
    /\ pc = "load_music"
    /\ Shard(file_index).status = "absent"
    /\ opened' = Append(opened, file_index)
    /\ IF file_index < MaxShards
       THEN /\ file_index' = NextIndex(file_index)
            /\ UNCHANGED <<music_history, globals, pc>>
       ELSE /\ music_history' = all_music_data
            /\ globals' = globals \cup {"music_history"}
            /\ pc' = "load_podcast"
            /\ UNCHANGED file_index
    /\ UNCHANGED <<sampledata, all_music_data, stdout, podcast_history,
                   music_df, podcast_df, overall_stats, listening_patterns,
                   artifacts, exc>>

\* The iteration whose open raises FileNotFoundError: break, return
\* all_music_data, bind music_history.
LoadShardNotFound ==
    /\ pc = "load_music"
    /\ Shard(file_index).status = "absent"
    /\ opened' = Append(opened, file_index)
    /\ music_history' = all_music_data
    /\ globals' = globals \cup {"music_history"}
    /\ pc' = "load_podcast"
    /\ UNCHANGED <<sampledata, file_index, all_music_data, stdout, podcast_history,
                   music_df, podcast_df, overall_stats, listening_patterns,
                   artifacts, exc>>

\* A handler that gives up what was loaded: `return []` on error.
ErrorResult_empty(acc) == <<>>

\* What load_all_music_history returns after the `except Exception` handler
\* broke out of the loop: all_music_data as it stands.
ErrorResult(acc) == acc

\* The iteration whose load_json raises anything else: print, break, return.
LoadShardError ==
    /\ pc = "load_music"
    /\ Shard(file_index).status = "bad"
    /\ opened' = Append(opened, file_index)
    /\ stdout' = Append(stdout, Printed("Error loading", "music", file_index, 0))
    /\ music_history' = ErrorResult(all_music_data)
    /\ globals' = globals \cup {"music_history"}
    /\ pc' = "load_podcast"
    /\ UNCHANGED <<sampledata, file_index, all_music_data, podcast_history,
                   music_df, podcast_df, overall_stats, listening_patterns,
                   artifacts, exc>>


\* ------------------------------------- the module-level try block

\* load_json raises (FileNotFoundError, or a JSON error) unless the file is
\* there and well-formed.
LoadJsonRaises(f) == f.status # "ok"

\* except Exception as e: print(f"Error loading data: {e}"); the script goes on
\* to the statement after the try block.
ErrorLoadingData(file) ==
    /\ stdout' = Append(stdout, Printed("Error loading data", file, 0, 0))
    /\ pc' = "normalize_music"

\* podcast_history = load_json('sampledata/StreamingHistory_podcast_0.json')
LoadPodcast ==
    /\ pc = "load_podcast"
    /\ IF LoadJsonRaises(sampledata.podcast)
       THEN /\ ErrorLoadingData("podcast")
            /\ UNCHANGED <<globals, podcast_history>>
       ELSE /\ podcast_history' = sampledata.podcast.body
            /\ globals' = globals \cup {"podcast_history"}
            /\ pc' = "load_library"
            /\ UNCHANGED stdout
    /\ UNCHANGED <<sampledata, file_index, all_music_data, opened, music_history,
                   music_df, podcast_df, overall_stats, listening_patterns,
                   artifacts, exc>>

\* library = load_json('sampledata/YourLibrary.json')
LoadLibrary ==
    /\ pc = "load_library"
    /\ IF LoadJsonRaises(sampledata.library)
       THEN /\ ErrorLoadingData("library")
            /\ UNCHANGED globals
       ELSE /\ globals' = globals \cup {"library"}
            /\ pc' = "load_wrapped"
            /\ UNCHANGED stdout
    /\ UNCHANGED <<sampledata, file_index, all_music_data, opened, music_history,
                   podcast_history, music_df, podcast_df, overall_stats,
                   listening_patterns, artifacts, exc>>

\* wrapped = load_json('sampledata/Wrapped2024.json'), then the success message.
LoadWrapped ==
    /\ pc = "load_wrapped"
    /\ IF LoadJsonRaises(sampledata.wrapped)
       THEN /\ ErrorLoadingData("wrapped")
            /\ UNCHANGED globals
       ELSE /\ globals' = globals \cup {"wrapped"}
            /\ stdout' = Append(stdout, Printed("All data files loaded successfully",
                                                "music", 0, Len(music_history)))
            /\ pc' = "normalize_music"
    /\ UNCHANGED <<sampledata, file_index, all_music_data, opened, music_history,
                   podcast_history, music_df, podcast_df, overall_stats,
                   listening_patterns, artifacts, exc>>

\* ------------------------------------------------------ history_to_df

\* Days from 1970-01-01 to the civil date y-m-d (proleptic Gregorian).
days_from_civil(y, m, d) ==
    LET yy == IF m <= 2 THEN y - 1 ELSE y
        era == yy \div 400
        yoe == yy - era * 400
        mp == IF m > 2 THEN m - 3 ELSE m + 9
        doy == (153 * mp + 2) \div 5 + d - 1
        doe == yoe * 365 + yoe \div 4 - yoe \div 100 + doy
    IN  era * 146097 + doe - 719468

\* pd.to_datetime of "YYYY-MM-DD HH:MM": a Timestamp, here in minutes since
\* the epoch (the strings carry no seconds).
to_datetime(t) == (days_from_civil(t[1], t[2], t[3]) * 24 + t[4]) * 60 + t[5]

\* .dt.date: the day number of the Timestamp.
dt_date(ts) == ts \div 1440

\* df['msPlayed'] / 60000: float division, kept as the exact quotient.  For
\* the integer msPlayed of an export the double nearest to the quotient
\* compares to the double 0.1 as the quotient compares to 1/10: 6000/60000
\* and the literal 0.1 round to the same double, and any other quotient
\* differs from 1/10 by at least 1/60000.
MinutesPlayed(ms) == Rat(ms, MsPerMinute)

\* pd.DataFrame([]) has no columns, so df['endTime'] raises KeyError.
history_to_df_raises(history_data) == history_data = <<>>

history_to_df(history_data) ==
    [i \in 1..Len(history_data) |->
        LET r == history_data[i]
            ts == to_datetime(r.endTime)
        IN  [date |-> dt_date(ts), minutesPlayed |-> MinutesPlayed(r.msPlayed)]
            @@ [r EXCEPT !.endTime = ts]]

Crash(e) ==
    /\ exc' = e
    /\ pc' = "crashed"

\* music_df = history_to_df(music_history)
NormalizeMusic ==
    /\ pc = "normalize_music"
    /\ IF history_to_df_raises(music_history)
       THEN /\ Crash("KeyError")
            /\ UNCHANGED <<music_df, globals>>
       ELSE /\ music_df' = history_to_df(music_history)
            /\ globals' = globals \cup {"music_df"}
            /\ pc' = "normalize_podcast"
            /\ UNCHANGED exc
    /\ UNCHANGED <<sampledata, file_index, all_music_data, opened, stdout,
                   music_history, podcast_history, podcast_df, overall_stats,
                   listening_patterns, artifacts>>

\* podcast_df = history_to_df(podcast_history); podcast_history is unbound
\* when the try block was left before or at its assignment.
NormalizePodcast ==
    /\ pc = "normalize_podcast"
    /\ IF "podcast_history" \notin globals
       THEN /\ Crash("NameError")
            /\ UNCHANGED <<podcast_df, globals>>
       ELSE IF history_to_df_raises(podcast_history)
       THEN /\ Crash("KeyError")
            /\ UNCHANGED <<podcast_df, globals>>
       ELSE /\ podcast_df' = history_to_df(podcast_history)
            /\ globals' = globals \cup {"podcast_df"}
            /\ pc' = "plot_overall_stats"
            /\ UNCHANGED exc
    /\ UNCHANGED <<sampledata, file_index, all_music_data, opened, stdout,
                   music_history, podcast_history, music_df, overall_stats,
                   listening_patterns, artifacts>>

\* -------------------------------------------------- pandas operations

RatAdd(a, b) ==
    IF a.den = b.den THEN Rat(a.num + b.num, a.den)
    ELSE Rat(a.num * b.den + b.num * a.den, a.den * b.den)

RatGt(a, b) ==
    IF a.den = b.den THEN a.num > b.num ELSE a.num * b.den > b.num * a.den

RECURSIVE SumMinutes(_)
\* Series.sum() of minutesPlayed; the sum of no values is 0.
SumMinutes(rows) ==
    IF rows = <<>> THEN Rat(0, MsPerMinute)
    ELSE RatAdd(rows[1].minutesPlayed, SumMinutes(Tail(rows)))

RECURSIVE SortedKeys(_)
\* The keys of a groupby, which sorts them ascending (sort=True).
SortedKeys(S) ==
    IF S = {} THEN <<>>
    ELSE LET m == CHOOSE x \in S : \A y \in S : x <= y
         IN  <<m>> \o SortedKeys(S \ {m})

\* The rows of one group, in frame order.
Group(df, col, k) == SelectSeq(df, LAMBDA r : r[col] = k)

\* df.groupby(col)['minutesPlayed'].sum(): one entry per key that occurs.
groupby_sum(df, col) ==
    LET keys == SortedKeys({df[i][col] : i \in 1..Len(df)})
    IN  [i \in 1..Len(keys) |->
            [key |-> keys[i], val |-> SumMinutes(Group(df, col, keys[i]))]]

\* df.groupby(col)['minutesPlayed'].count(): the counts, as numbers n/1.
groupby_count(df, col) ==
    LET keys == SortedKeys({df[i][col] : i \in 1..Len(df)})
    IN  [i \in 1..Len(keys) |->
            [key |-> keys[i], val |-> Rat(Len(Group(df, col, keys[i])), 1)]]

\* sort_values uses quicksort, which is not stable: the order it leaves among
\* equal values is not fixed by the call.  Two outcomes are modelled: equal
\* values keep the order of the Series, or come out in the opposite order.
TieOrders == {"kept", "reversed"}

RECURSIVE SelectDesc(_, _, _)
\* The entries of s at the positions idx, greatest value first.
SelectDesc(s, tie, idx) ==
    IF idx = {} THEN <<>>
    ELSE LET best == {i \in idx : \A j \in idx : ~RatGt(s[j].val, s[i].val)}
             pick == IF tie = "kept"
                     THEN CHOOSE i \in best : \A j \in best : i <= j
                     ELSE CHOOSE i \in best : \A j \in best : i >= j
         IN  <<s[pick]>> \o SelectDesc(s, tie, idx \ {pick})

\* A summary that forgot sort_values: the Series as groupby left it.
sort_values_missing(s, tie) == s

\* Series.sort_values(ascending=False)
sort_values_desc(s, tie) == SelectDesc(s, tie, 1..Len(s))

\* A summary that takes the end of the sorted Series: tail(n) for head(n).
head_tail(s, n) == SubSeq(s, Len(s) - Min(n, Len(s)) + 1, Len(s))

\* Series.head(n)
head(s, n) == SubSeq(s, 1, Min(n, Len(s)))

\* ------------------------------------------------ plot_overall_stats

\* music_df.groupby('artistName')['minutesPlayed'].sum()
\*         .sort_values(ascending=False).head(10)
TopArtists(df, tie) == head(sort_values_desc(groupby_sum(df, "artistName"), tie), TopN)

\* music_df.groupby('trackName')['minutesPlayed'].count()
\*         .sort_values(ascending=False).head(10)
TrackCounts(df, tie) == head(sort_values_desc(groupby_count(df, "trackName"), tie), TopN)

OverallStats(mdf, pdf, tieArtists, tieTracks) ==
    [total_music_minutes |-> SumMinutes(mdf),
     total_podcast_minutes |-> SumMinutes(pdf),
     top_artists |-> TopArtists(mdf, tieArtists),
     daily_listening |-> groupby_sum(mdf, "date"),
     track_counts |-> TrackCounts(mdf, tieTracks)]

plot_overall_stats ==
    /\ pc = "plot_overall_stats"
    /\ \E tieArtists \in TieOrders, tieTracks \in TieOrders :
          overall_stats' = OverallStats(music_df, podcast_df, tieArtists, tieTracks)
    /\ artifacts' = artifacts \cup {"descriptivestats.png"}
    /\ pc' = "plot_listening_patterns"
    /\ UNCHANGED <<sampledata, file_index, all_music_data, opened, stdout, globals,
                   music_history, podcast_history, music_df, podcast_df,
                   listening_patterns, exc>>

\* -------------------------------------------- plot_listening_patterns

day_order == <<"Monday", "Tuesday", "Wednesday", "Thursday", "Friday",
               "Saturday", "Sunday">>

\* .dt.hour
dt_hour(ts) == (ts % 1440) \div 60

\* .dt.day_name(): 1970-01-01 was a Thursday.
dt_day_name(ts) == day_order[((dt_date(ts) + 3) % 7) + 1]

\* .dt.strftime('%Y-%m'): the year and month of the Timestamp; the string
\* "YYYY-MM" is kept as the number YYYYMM, which sorts as the string does.
dt_strftime_Ym(ts) ==
    LET z == dt_date(ts) + 719468
        era == z \div 146097
        doe == z - era * 146097
        yoe == (doe - doe \div 1460 + doe \div 36524 - doe \div 146096) \div 365
        doy == doe - (365 * yoe + yoe \div 4 - yoe \div 100)
        mp == (5 * doy + 2) \div 153
        m == IF mp < 10 THEN mp + 3 ELSE mp - 9
        y == yoe + era * 400 + (IF m <= 2 THEN 1 ELSE 0)
    IN  y * 100 + m

\* A plot function that keeps the hour in the endTime column instead of a
\* column of its own.
WithTimeColumns_overwrite(df) ==
    [i \in 1..Len(df) |->
        [hour |-> dt_hour(df[i].endTime),
         day_of_week |-> dt_day_name(df[i].endTime),
         month |-> dt_strftime_Ym(df[i].endTime)]
        @@ [df[i] EXCEPT !.endTime = dt_hour(df[i].endTime)]]

\* music_df['hour'] = ...; music_df['day_of_week'] = ...; music_df['month'] = ...
\* The three assignments add columns to the module-level frame.
WithTimeColumns(df) ==
    [i \in 1..Len(df) |->
        [hour |-> dt_hour(df[i].endTime),
         day_of_week |-> dt_day_name(df[i].endTime),
         month |-> dt_strftime_Ym(df[i].endTime)] @@ df[i]]

\* music_df.groupby('hour')['minutesPlayed'].sum()
HourlyListening(df) == groupby_sum(df, "hour")

\* Series.reindex(labels): the labels in the given order; a label the Series
\* lacks gets NaN.  The Series is the groupby of day_of_week.
WeeklyListening(df) ==
    [i \in 1..Len(day_order) |->
        LET rows == Group(df, "day_of_week", day_order[i])
        IN  [key |-> day_order[i],
             nan |-> rows = <<>>,                \* val is NaN, not a number
             val |-> SumMinutes(rows)]]

\* The literal 0.1.
Tenth == Rat(1, 10)

\* A filter that keeps the plays of exactly 0.1 minutes: >= for >.
ValidPlays_inclusive(df) == SelectSeq(df, LAMBDA r : ~RatGt(Tenth, r.minutesPlayed))

\* music_df[music_df['minutesPlayed'] > 0.1]
ValidPlays(df) == SelectSeq(df, LAMBDA r : RatGt(r.minutesPlayed, Tenth))

ListeningPatterns(df) ==
    [hourly_listening |-> HourlyListening(df),
     weekly_listening |-> WeeklyListening(df),
     monthly_listening |-> groupby_sum(df, "month"),
     valid_plays |-> ValidPlays(df)]

plot_listening_patterns ==
    /\ pc = "plot_listening_patterns"
    /\ music_df' = WithTimeColumns(music_df)
    /\ listening_patterns' = ListeningPatterns(music_df')
    /\ artifacts' = artifacts \cup {"patterns.png"}
    /\ pc' = "done"
    /\ UNCHANGED <<sampledata, file_index, all_music_data, opened, stdout, globals,
                   music_history, podcast_history, podcast_df, overall_stats, exc>>

Next ==
    \/ LoadShardOk \/ LoadShardNotFound \/ LoadShardError
    \/ LoadPodcast \/ LoadLibrary \/ LoadWrapped
    \/ NormalizeMusic \/ NormalizePodcast
    \/ plot_overall_stats \/ plot_listening_patterns

Spec == Init /\ [][Next]_vars

\* =============================================================== claims

\* ------------------------------------------------ what the claims speak of

RECURSIVE Concatenation(_)
\* The records of shards 0 .. k-1, shard after shard, each in file order.
Concatenation(k) ==
    IF k = 0 THEN <<>> ELSE Concatenation(k - 1) \o sampledata.music[k - 1].body

\* Shards 0 .. k-1 are there and readable, shard k is not there.
GapFree(k) ==
    /\ \A i \in 0..k-1 : Shard(i).status = "ok"
    /\ Shard(k).status = "absent"

\* The smallest index with no shard file.
SmallestAbsent == CHOOSE m \in 0..MaxShards :
    Shard(m).status = "absent" /\ \A i \in 0..m-1 : Shard(i).status # "absent"

\* Shard j is the first one whose load fails with an error other than
\* file-not-found, and the loop gets to it.
FirstFailure(j) ==
    /\ j < MaxShards
    /\ Shard(j).status = "bad"
    /\ \A i \in 0..j-1 : Shard(i).status = "ok"

Returned == "music_history" \in globals

UpTo(n) == [i \in 1..n + 1 |-> i - 1]

ShardMessages == SelectSeq(stdout, LAMBDA line : line.file = "music")

\* --------------------------------------------------------------- C1
\* C1: when shards 0..k-1 are present and readable and shard k is absent,
\* load_all_music_history returns the concatenation of the k shards, in index
\* order and file order, nothing dropped, repeated or moved, and reports no
\* error; for k = 0 it returns the empty sequence.
C1_GapFreeConcatenation ==
    \A k \in 0..MaxShards :
        (Returned /\ GapFree(k)) =>
            /\ music_history = Concatenation(k)
            /\ \A i \in 1..Len(stdout) : stdout[i].msg # "Error loading"
            /\ pc = "load_podcast" => exc = "none"
            /\ k = 0 => music_history = <<>>

C1_Witness ==
    /\ Returned /\ GapFree(2)
    /\ Len(Shard(0).body) = 2 /\ Len(Shard(1).body) = 1
    /\ Shard(0).body[1] # Shard(0).body[2] /\ Shard(1).body[1] # Shard(0).body[1]
    /\ Len(music_history) = 3

\* --------------------------------------------------------------- C2
\* C2: with m the smallest absent index, the loader opens shard files in the
\* order 0, 1, 2, ... without skipping, never opens an index above m, and
\* returns only records of shards 0..m-1; when every shard below m is
\* readable it opens exactly 0..m.  Shards after a gap are never read, and
\* an absent shard 0 gives the empty result.
C2_StopsAtFirstGap ==
    LET m == SmallestAbsent
    IN  /\ \A i \in 1..Len(opened) : opened[i] = i - 1 /\ opened[i] <= m
        /\ Returned =>
             /\ opened # <<>>
             /\ music_history = Concatenation(Len(opened) - 1)
             /\ GapFree(m) => opened = UpTo(m)
             /\ m = 0 => music_history = <<>>

C2_Witness ==
    /\ Returned
    /\ Shard(0).status = "ok" /\ Shard(1).status = "absent"
    /\ Shard(2).status = "ok" /\ Shard(2).body # <<>>
    /\ opened = <<0, 1>>

SomeInputAbsent ==
    \E f \in {sampledata.podcast, sampledata.library, sampledata.wrapped} :
        f.status = "absent"

\* C4: if the podcast, library or wrapped file is absent, whichever it is,
\* the run ends before any image is written: no artifact exists and the
\* script never completes.
C4_MissingInputIsFatal ==
    SomeInputAbsent => (artifacts = {} /\ pc # "done")

\* --------------------------------------------------------------- C5
\* C5: the hourly summary has the 24 buckets 0..23 and the day-of-week summary
\* the 7 buckets Monday..Sunday, and a bucket without events holds the number 0.
C5_AllBucketsPresent ==
    pc = "done" =>
        LET hourly == listening_patterns.hourly_listening
            weekly == listening_patterns.weekly_listening
        IN  /\ Len(hourly) = 24
            /\ \A h \in 1..Len(hourly) : hourly[h].key = h - 1
            /\ Len(weekly) = 7
            /\ \A d \in 1..Len(weekly) :
                  weekly[d].key = day_order[d] /\ ~weekly[d].nan

\* --------------------------------------------------------------- C6
EmptyInput ==
    \/ Returned /\ music_history = <<>>
    \/ "podcast_history" \in globals /\ podcast_history = <<>>

\* C6: an empty music collection or an empty podcast array never makes
\* normalization or a summary raise.
C6_EmptyInputNeverFails ==
    EmptyInput => pc # "crashed"

\* ------------------------------------------ top-N summaries (C7, C8)

Keys(df, col) == {df[i][col] : i \in 1..Len(df)}

RECURSIVE MsOfKey(_, _, _, _)
\* The milliseconds the first n rows give to key k.
MsOfKey(df, col, k, n) ==
    IF n = 0 THEN 0
    ELSE MsOfKey(df, col, k, n - 1) + (IF df[n][col] = k THEN df[n].msPlayed ELSE 0)

\* The aggregated value of an artist: its minutes, as milliseconds.
ArtistMs(k) == MsOfKey(music_df, "artistName", k, Len(music_df))

\* The aggregated value of a track: its number of events.
TrackPlays(k) == Cardinality({i \in 1..Len(music_df) : music_df[i].trackName = k})

\* The position of the first event of key k.
FirstSeen(col, k) ==
    CHOOSE i \in 1..Len(music_df) :
        music_df[i][col] = k /\ \A j \in 1..i-1 : music_df[j][col] # k

OverallDone == pc \in {"plot_listening_patterns", "done"}

Included(top) == {top[i].key : i \in 1..Len(top)}

\* top lists min(TopN, number of keys) distinct keys with their aggregated
\* values, greatest first, and leaves out no key greater than one it lists.
IsTopN(top, keys, Value(_)) ==
    /\ Len(top) <= TopN
    /\ Len(top) = Min(TopN, Cardinality(keys))
    /\ \A i \in 1..Len(top) : top[i].key \in keys
    /\ \A i, j \in 1..Len(top) : i # j => top[i].key # top[j].key
    /\ \A i \in 1..Len(top)-1 : Value(top[i].key) >= Value(top[i + 1].key)
    /\ \A k \in keys \ Included(top) : \A i \in 1..Len(top) :
          Value(k) <= Value(top[i].key)

\* C7: the top-artists summary (minutes per artist) and the top-tracks summary
\* (events per track) each list min(10, number of keys) entries, at most 10,
\* each with its aggregated value, in non-increasing order of value, and no
\* key left out has a greater value than a key listed.
C7_TopTenSorted ==
    OverallDone =>
        /\ IsTopN(overall_stats.top_artists, Keys(music_df, "artistName"), ArtistMs)
        /\ \A i \in 1..Len(overall_stats.top_artists) :
              overall_stats.top_artists[i].val =
                  Rat(ArtistMs(overall_stats.top_artists[i].key), MsPerMinute)
        /\ IsTopN(overall_stats.track_counts, Keys(music_df, "trackName"), TrackPlays)
        /\ \A i \in 1..Len(overall_stats.track_counts) :
              overall_stats.track_counts[i].val =
                  Rat(TrackPlays(overall_stats.track_counts[i].key), 1)

\* More than ten artists with different totals, and more than ten tracks of
\* which one was played twice.
C7_Witness ==
    /\ pc = "done"
    /\ Cardinality(Keys(music_df, "artistName")) > TopN
    /\ Cardinality(Keys(music_df, "trackName")) > TopN
    /\ \E a, b \in Keys(music_df, "artistName") : ArtistMs(a) > ArtistMs(b)
    /\ \E a, b \in Keys(music_df, "trackName") : TrackPlays(a) > TrackPlays(b)
    /\ Len(overall_stats.top_artists) = TopN
    /\ Len(overall_stats.track_counts) = TopN

\* top orders keys of equal value by first-seen position, and lists a tied key
\* rather than one first seen later.
TiesByFirstSeen(top, keys, col, Value(_)) ==
    /\ \A i \in 1..Len(top)-1 :
          Value(top[i].key) = Value(top[i + 1].key) =>
              FirstSeen(col, top[i].key) < FirstSeen(col, top[i + 1].key)
    /\ \A k \in keys \ Included(top) : \A i \in 1..Len(top) :
          Value(k) = Value(top[i].key) =>
              FirstSeen(col, top[i].key) < FirstSeen(col, k)

\* C8 as stated: in both top-10 summaries keys of equal aggregated value are in
\* first-seen order, which also decides which tied keys are inside the top 10.
C8_TiesByFirstSeen ==
    OverallDone =>
        /\ TiesByFirstSeen(overall_stats.top_artists, Keys(music_df, "artistName"),
                           "artistName", ArtistMs)
        /\ TiesByFirstSeen(overall_stats.track_counts, Keys(music_df, "trackName"),
                           "trackName", TrackPlays)

\* Of the keys of each value, top lists as many as fit after all keys of
\* greater value, whichever they are, and lists them next to each other.
TiesShareTheirPlaces(top, keys, Value(_)) ==
    /\ \A k \in keys :
          LET greater == Cardinality({g \in keys : Value(g) > Value(k)})
              tied == Cardinality({g \in keys : Value(g) = Value(k)})
              listed == Cardinality({g \in Included(top) : Value(g) = Value(k)})
              room == IF greater >= TopN THEN 0 ELSE TopN - greater
          IN  listed = Min(tied, room)
    /\ \A i, j \in 1..Len(top) :
          (i < j /\ Value(top[i].key) = Value(top[j].key)) =>
              \A h \in i..j : Value(top[h].key) = Value(top[i].key)

\* C8 amended: keys of equal aggregated value take consecutive places of the
\* summary, as many of them as fit into the top 10 after the keys of greater
\* value; which of them, and in what order, is not decided by first-seen order.
C8_TiesShareTheirPlaces ==
    OverallDone =>
        /\ TiesShareTheirPlaces(overall_stats.top_artists,
                                Keys(music_df, "artistName"), ArtistMs)
        /\ TiesShareTheirPlaces(overall_stats.track_counts,
                                Keys(music_df, "trackName"), TrackPlays)

\* A tie across the cut: of the tracks played once some are listed, some not,
\* and an artist first seen later is listed before one tied with it.
C8_Witness ==
    /\ pc = "done"
    /\ \E k \in Included(overall_stats.track_counts) :
          \E o \in Keys(music_df, "trackName") \ Included(overall_stats.track_counts) :
              TrackPlays(k) = TrackPlays(o)
    /\ \E i \in 1..Len(overall_stats.top_artists)-1 :
          /\ ArtistMs(overall_stats.top_artists[i].key)
                = ArtistMs(overall_stats.top_artists[i + 1].key)
          /\ FirstSeen("artistName", overall_stats.top_artists[i].key)
                > FirstSeen("artistName", overall_stats.top_artists[i + 1].key)

\* --------------------------------------------------------------- C9
\* C9: the play-duration distribution is computed over exactly the events of
\* more than 6000 ms, each once and in frame order: an event of 6000 ms or
\* less (6000 and 0 among them) is left out, an event of more is kept.
C9_SkipThreshold ==
    pc = "done" =>
        /\ listening_patterns.valid_plays
              = SelectSeq(music_df, LAMBDA r : r.msPlayed > 6000)
        /\ \A i \in 1..Len(music_df) :
              /\ music_df[i].minutesPlayed.den = 60000
              /\ music_df[i].minutesPlayed.num = music_df[i].msPlayed

C9_Witness ==
    /\ pc = "done"
    /\ \E i, j \in 1..Len(music_df) :
          /\ music_df[i].msPlayed = 6000
          /\ music_df[j].msPlayed = 6001
    /\ Len(listening_patterns.valid_plays) = 1

TimeColumns == {"hour", "day_of_week", "month"}

====
